---- MODULE Spec2Model ----
(***************************************************************************)
(* Model of the LLM provider abstraction of free-cluely                    *)
(* (src/electron/LLMHelper.ts): the provider selection state of one        *)
(* LLMHelper instance with its asynchronous Ollama model probe, and the    *)
(* chat-completion stream decoder of callOpenAI.                           *)
(*                                                                         *)
(* Spec        construction, the three switch operations, the model probe  *)
(*             (initializeOllamaModel) as an interleaved process, chat.    *)
(* SpecStream  the read loop of callOpenAI over a body delivered in reads. *)
(* SpecAudio   analyzeAudioFile / analyzeAudioFromBase64 with transcription *)
(*             and the context lookup (fetchContext and its two backends).  *)
(* SpecOps     one call of each other operation: the structured-output     *)
(*             operations with cleanJsonResponse, analyzeImageFile, chat,  *)
(*             testConnection, getOllamaModels, the base64 transcription   *)
(*             with its temporary file, callOllama and callOpenAI.         *)
(***************************************************************************)
EXTENDS Integers, Sequences, FiniteSets, TLC

VARIABLES
  inst,          \* "none" before construction, "ok", or "threw"
  ctorArgs,      \* the arguments the constructor was called with
  h,             \* the private fields of the LLMHelper instance
  probe,         \* the in-flight initializeOllamaModel calls, by caller
  serverModels,  \* the model names the local server lists under /api/tags
  lastOp,        \* the last public call that returned or threw
  lastRequest,   \* the last generation request put on the wire
  nSwitch,       \* number of switch calls made so far
  rt,            \* progress of a switch-away / switch-back round trip
  body,          \* stream: the lines of the response body, each a token sequence
  pos,           \* stream: number of tokens already handed out by read()
  nReads,        \* stream: number of reads that returned data
  spc,           \* stream: "idle", "reading", "returned", "threw"
  hasOnChunk,    \* stream: whether the caller supplied onChunk
  onChunkThrows, \* stream: whether the supplied onChunk throws when called
  fullContent,   \* stream: the accumulator of callOpenAI
  delivered,     \* stream: the arguments of the onChunk calls, in order
  seenLines,     \* stream: every line the decoder split out of a read
  sawDone,       \* stream: a `data: [DONE]` line has been processed
  lateContent,   \* stream: fragments accumulated after sawDone
  env,           \* audio: the process.env entries the context lookup reads
  aud,           \* audio: the analyzeAudio* call in flight or last finished
  trace,         \* audio: what that call invoked and sent, in order
  queried,       \* audio: the search backends queried by any call so far
  nCalls,        \* audio: number of analyzeAudio* calls made
  oper,          \* ops: the operation in flight or last finished
  reqs,          \* ops: the backend requests that operation has issued, in order
  tmpFile,       \* ops: whether a temporary audio file is on disk
  nOps,          \* ops: number of operations called
  tmp            \* ops: the clock, the temp directory and the concurrent
                 \*      base64 transcription calls

provVars   == <<inst, ctorArgs, h, probe, serverModels, lastOp, lastRequest, nSwitch, rt>>
provRest   == <<inst, ctorArgs, probe, serverModels, lastOp, lastRequest, nSwitch, rt>>
streamVars == <<body, pos, nReads, spc, hasOnChunk, onChunkThrows, fullContent, delivered,
                seenLines, sawDone, lateContent>>
audioVars  == <<env, aud, trace, queried, nCalls>>
opsVars    == <<oper, reqs, tmpFile, nOps, tmp>>
vars       == <<provVars, streamVars, audioVars, opsVars>>

\* ------------------------------------------------------------------ bounds
MaxSwitches == 2
MaxLines    == 2
MaxReads    == 3
MaxCalls    == 2
MaxHits     == 6
MaxOps      == 2
MaxTicks    == 1
MaxPad      == 1

\* ------------------------------------------------- argument value domains
NoArg        == ""            \* an omitted (undefined) or empty argument
ApiKeys      == {NoArg, "k1"}
ModelArgs    == {NoArg, "a", "c"}
UrlArgs      == {NoArg, "u1"}
OpenAIModels == {NoArg, "m1"}
ServerLists  == {<< >>, <<"a", "b">>, <<"b", "a">>}
Outcomes     == {"ok", "status", "error"}   \* 2xx, non-2xx, transport error

\* --------------------------------------------------- literals of the code
NoHandle            == "null"
FieldOllamaModel    == "llama3.2"
CtorOllamaModel     == "gemma:latest"
DefaultOllamaUrl    == "http://localhost:11434"
DefaultOpenAIModel  == "gpt-4o"
GeminiModelName     == "gemini-2.0-flash"

Or(x, dflt) == IF x = NoArg THEN dflt ELSE x      \* the JS idiom  x || dflt

\* the field initialisers of the class
FieldInit ==
  [ model        |-> NoHandle,
    useOllama    |-> FALSE,
    useOpenAI    |-> FALSE,
    ollamaModel  |-> FieldOllamaModel,
    ollamaUrl    |-> DefaultOllamaUrl,
    openaiApiKey |-> NoArg,
    openaiModel  |-> DefaultOpenAIModel ]

\* ------------------------------------------------------------ constructor
\* variant: the API key check of the OpenAI branch is missing
constructor_noKeyCheck(apiKey, useOllama, ollamaModel, ollamaUrl, useOpenAI, openaiModel) ==
  LET h0 == [FieldInit EXCEPT !.useOllama = useOllama, !.useOpenAI = useOpenAI] IN
  IF useOpenAI THEN
    [ h     |-> [h0 EXCEPT !.openaiApiKey = Or(apiKey, NoArg),
                           !.openaiModel  = Or(openaiModel, DefaultOpenAIModel)],
      threw |-> FALSE,
      init  |-> FALSE ]
  ELSE IF useOllama THEN
    [ h     |-> [h0 EXCEPT !.ollamaUrl   = Or(ollamaUrl, DefaultOllamaUrl),
                           !.ollamaModel = Or(ollamaModel, CtorOllamaModel)],
      threw |-> FALSE,
      init  |-> TRUE ]
  ELSE IF apiKey # NoArg THEN
    [ h |-> [h0 EXCEPT !.model = apiKey], threw |-> FALSE, init |-> FALSE ]
  ELSE
    [ h |-> h0, threw |-> TRUE, init |-> FALSE ]

\* Result of running the constructor body: the fields as assigned, whether
\* it threw, and whether it started initializeOllamaModel().
constructor(apiKey, useOllama, ollamaModel, ollamaUrl, useOpenAI, openaiModel) ==
  LET h0 == [FieldInit EXCEPT !.useOllama = useOllama, !.useOpenAI = useOpenAI] IN
  IF useOpenAI THEN
    [ h     |-> [h0 EXCEPT !.openaiApiKey = Or(apiKey, NoArg),
                           !.openaiModel  = Or(openaiModel, DefaultOpenAIModel)],
      threw |-> (Or(apiKey, NoArg) = NoArg),
      init  |-> FALSE ]
  ELSE IF useOllama THEN
    [ h     |-> [h0 EXCEPT !.ollamaUrl   = Or(ollamaUrl, DefaultOllamaUrl),
                           !.ollamaModel = Or(ollamaModel, CtorOllamaModel)],
      threw |-> FALSE,
      init  |-> TRUE ]
  ELSE IF apiKey # NoArg THEN
    [ h |-> [h0 EXCEPT !.model = apiKey], threw |-> FALSE, init |-> FALSE ]
  ELSE
    [ h |-> h0, threw |-> TRUE, init |-> FALSE ]

\* ---------------------------------------------------------------- getters
isUsingOllama(hh) == hh.useOllama
isUsingOpenAI(hh) == hh.useOpenAI

getCurrentProvider(hh) ==
  IF hh.useOpenAI THEN "openai"
  ELSE IF hh.useOllama THEN "ollama" ELSE "gemini"

getCurrentModel(hh) ==
  IF hh.useOpenAI THEN hh.openaiModel
  ELSE IF hh.useOllama THEN hh.ollamaModel ELSE GeminiModelName

\* --------------------------------------------------------------- requests
NoRequest == [by |-> "none", backend |-> "none", model |-> "-"]

callOllama(hh, by) == [by |-> by, backend |-> "ollama", model |-> hh.ollamaModel]
callOpenAI(hh, by) == [by |-> by, backend |-> "openai", model |-> hh.openaiModel]
callGemini(hh, by) == [by |-> by, backend |-> "gemini", model |-> GeminiModelName]

\* the provider dispatch of chatWithGemini; backend "none" is the throw of
\* "No LLM provider configured"
chatWithGemini(hh) ==
  IF hh.useOpenAI THEN callOpenAI(hh, "chat")
  ELSE IF hh.useOllama THEN callOllama(hh, "chat")
  ELSE IF hh.model # NoHandle THEN callGemini(hh, "chat")
  ELSE [by |-> "chat", backend |-> "none", model |-> "-"]

\* ------------------------------------------------------ switch operations
\* switchToOllama up to its first await: the flag, the url and, when a model
\* is given, the model.
switchToOllama(hh, mdl, url) ==
  LET h1 == [hh EXCEPT !.useOllama = TRUE]
      h2 == IF url # NoArg THEN [h1 EXCEPT !.ollamaUrl = url] ELSE h1
  IN  IF mdl # NoArg THEN [h2 EXCEPT !.ollamaModel = mdl] ELSE h2

\* variant: the missing handle is not checked
switchToGeminiThrows_never(hh, apiKey) == FALSE

switchToGeminiThrows(hh, apiKey) ==
  LET m == IF apiKey # NoArg THEN apiKey ELSE hh.model
  IN  m = NoHandle /\ apiKey = NoArg

\* variant: the flags are cleared before the handle is checked
switchToGemini_flagsFirst(hh, apiKey) ==
  LET h1 == IF apiKey # NoArg THEN [hh EXCEPT !.model = apiKey] ELSE hh
  IN  [h1 EXCEPT !.useOllama = FALSE, !.useOpenAI = FALSE]

switchToGemini(hh, apiKey) ==
  LET h1 == IF apiKey # NoArg THEN [hh EXCEPT !.model = apiKey] ELSE hh
  IN  IF switchToGeminiThrows(hh, apiKey) THEN h1
      ELSE [h1 EXCEPT !.useOllama = FALSE, !.useOpenAI = FALSE]

switchToOpenAI(hh, apiKey, mdl) ==
  [hh EXCEPT !.openaiApiKey = apiKey,
             !.openaiModel  = Or(mdl, DefaultOpenAIModel),
             !.useOpenAI    = TRUE,
             !.useOllama    = FALSE]

\* ------------------------------------------------- initializeOllamaModel
Includes(s, x) == \E i \in 1..Len(s) : s[i] = x

\* getOllamaModels: no request is sent unless the Ollama flag is set; any
\* transport error or non-OK status yields the empty list.
getOllamaModelsSends(hh) == hh.useOllama
\* variant: response.ok is not checked
getOllamaModelsResult_ignoreStatus(outcome, listed) ==
  IF outcome \in {"ok", "status"} THEN listed ELSE << >>

getOllamaModelsResult(outcome, listed) ==
  IF outcome = "ok" THEN listed ELSE << >>

\* variant: the configured model is kept although it is not listed
autoSelect_keepConfigured(hh, availableModels) ==
  IF Len(availableModels) = 0 THEN [h |-> hh, stop |-> TRUE]
  ELSE [h |-> hh, stop |-> FALSE]

\* the code between the first getOllamaModels and the test generation:
\* TRUE in .stop is the early return on an empty list
autoSelect(hh, availableModels) ==
  IF Len(availableModels) = 0 THEN [h |-> hh, stop |-> TRUE]
  ELSE IF ~Includes(availableModels, hh.ollamaModel)
       THEN [h |-> [hh EXCEPT !.ollamaModel = availableModels[1]], stop |-> FALSE]
       ELSE [h |-> hh, stop |-> FALSE]

\* the catch block: fall back to the first model of a second listing
fallbackSelect(hh, models) ==
  IF Len(models) > 0 THEN [hh EXCEPT !.ollamaModel = models[1]] ELSE hh

ProbeIds  == {"ctor", "switch"}
IdleProbe == [pc |-> "idle", tags1 |-> "none", prevProvider |-> "-", prevModel |-> "-"]

\* a call of initializeOllamaModel up to its first await
startProbe(hh, prevProvider, prevModel) ==
  [ pc           |-> IF getOllamaModelsSends(hh) THEN "tags1" ELSE "done",
    tags1        |-> "none",
    prevProvider |-> prevProvider,
    prevModel    |-> prevModel ]

NoOp == [op |-> "none", state |-> "-", modelArg |-> "-",
         prevProvider |-> "-", prevModel |-> "-", detect |-> "-"]
NoCtorArgs == [apiKey |-> "-", useOllama |-> FALSE, ollamaModel |-> "-",
               useOpenAI |-> FALSE]

\* Round-trip bookkeeping.  stage 1: with no probe in flight and at most one
\* provider flag set, a switch to a provider other than the active one
\* returned; orig holds the fields before it.  stage 2: the next
\* switch went back to orig's provider with orig's own arguments.
NoTrip == [stage |-> 0, orig |-> FieldInit]

Quiescent == \A p \in ProbeIds : probe[p].pc \in {"idle", "done"}

nextTrip(target, back, ok) ==
  IF ~ok THEN NoTrip
  ELSE IF rt.stage = 1 /\ target = getCurrentProvider(rt.orig) /\ back
       THEN [stage |-> 2, orig |-> rt.orig]
  ELSE IF target # getCurrentProvider(h) /\ Quiescent /\ ~(h.useOllama /\ h.useOpenAI)
       THEN [stage |-> 1, orig |-> h]
  ELSE NoTrip

\* ------------------------------------------------------- audio, idle part
NoContext == [answer |-> FALSE, blocks |-> << >>]
NoResp == [outcome |-> "-", hits |-> 0, answer |-> FALSE]
NoAud ==
  [ pc |-> "idle", variant |-> "-", cb |-> FALSE, branch |-> "-",
    whisper |-> "-", transcript |-> "-", backend |-> "-", query |-> "-", limit |-> 0,
    resp |-> NoResp, context |-> NoContext, promptHasContext |-> FALSE,
    genCb |-> FALSE, genAudio |-> FALSE, err |-> "-", result |-> "-",
    trKey |-> "-", genKey |-> "-", genModel |-> "-" ]
NoEnv == [USE_KONTEXT |-> NoArg, WEAVIATE_URL |-> NoArg,
          WEAVIATE_API_KEY |-> NoArg, KONTEXT_API_KEY |-> NoArg]

AudioIdle ==
  /\ env = NoEnv /\ aud = NoAud /\ trace = << >> /\ queried = {} /\ nCalls = 0

\* --------------------------------------------------------- ops, idle part
NoOperation ==
  [ name |-> "-", pc |-> "idle", cb |-> FALSE, status |-> "-", text |-> << >>,
    cleaned |-> << >>, decoded |-> FALSE, chunks |-> FALSE,
    result |-> "-", err |-> "-" ]

\* the concurrent callers of transcribeAudioFromBase64WithWhisper; caller c
\* passes the audio bytes c; 0 stands for "no file" / "nothing sent"
Callers == {1, 2}
NoTmp ==
  [ now  |-> 0,
    disk |-> [p \in 0..MaxTicks |-> 0],
    call |-> [c \in Callers |-> [pc |-> "idle", path |-> 0, sent |-> 0]] ]

OpsIdle ==
  /\ oper = NoOperation /\ reqs = << >> /\ tmpFile = FALSE /\ nOps = 0
  /\ tmp = NoTmp

\* ------------------------------------------------------ stream, idle part
StreamIdle ==
  /\ body = << >> /\ pos = 0 /\ nReads = 0 /\ spc = "idle"
  /\ hasOnChunk = FALSE /\ onChunkThrows = FALSE
  /\ fullContent = << >> /\ delivered = << >>
  /\ seenLines = << >> /\ sawDone = FALSE /\ lateContent = << >>

ProviderIdle ==
  /\ inst = "none" /\ ctorArgs = NoCtorArgs /\ h = FieldInit
  /\ probe = [p \in ProbeIds |-> IdleProbe]
  /\ lastOp = NoOp /\ lastRequest = NoRequest /\ nSwitch = 0 /\ rt = NoTrip

\* =================================================== the provider machine
Init ==
  /\ ProviderIdle
  /\ serverModels \in ServerLists
  /\ StreamIdle
  /\ AudioIdle
  /\ OpsIdle

\* new LLMHelper(apiKey, useOllama, ollamaModel, ollamaUrl, useOpenAI, openaiModel)
Construct ==
  /\ inst = "none"
  /\ \E apiKey \in ApiKeys, useOllama \in BOOLEAN, ollamaModel \in ModelArgs,
        ollamaUrl \in UrlArgs, useOpenAI \in BOOLEAN, openaiModel \in OpenAIModels :
       LET r == constructor(apiKey, useOllama, ollamaModel, ollamaUrl, useOpenAI, openaiModel) IN
       /\ inst' = IF r.threw THEN "threw" ELSE "ok"
       /\ h' = r.h
       /\ ctorArgs' = [apiKey |-> apiKey, useOllama |-> useOllama,
                       ollamaModel |-> ollamaModel, useOpenAI |-> useOpenAI]
       /\ probe' = IF r.init /\ ~r.threw
                   THEN [probe EXCEPT !["ctor"] = startProbe(r.h, "-", "-")]
                   ELSE probe
       /\ lastOp' = [NoOp EXCEPT !.op = "construct",
                                 !.state = IF r.threw THEN "threw" ELSE "returned"]
  /\ UNCHANGED <<serverModels, lastRequest, nSwitch, rt, streamVars, audioVars, opsVars>>

\* await switchToOllama(model, url) with an explicit model: no await is
\* reached, the call completes in one step
CallSwitchToOllamaModel ==
  /\ inst = "ok" /\ nSwitch < MaxSwitches
  /\ \E mdl \in ModelArgs \ {NoArg}, url \in UrlArgs :
       /\ h' = switchToOllama(h, mdl, url)
       /\ rt' = nextTrip("ollama", mdl = rt.orig.ollamaModel
                                    /\ Or(url, DefaultOllamaUrl) = rt.orig.ollamaUrl, TRUE)
       /\ lastOp' = [op |-> "switchToOllama", state |-> "returned", modelArg |-> mdl,
                     prevProvider |-> getCurrentProvider(h),
                     prevModel |-> getCurrentModel(h), detect |-> "-"]
  /\ nSwitch' = nSwitch + 1
  /\ UNCHANGED <<inst, ctorArgs, probe, serverModels, lastRequest, streamVars, audioVars, opsVars>>

\* await switchToOllama(undefined, url): sets the flag and the url, then
\* awaits initializeOllamaModel()
CallSwitchToOllamaAuto ==
  /\ inst = "ok" /\ nSwitch < MaxSwitches
  /\ probe["switch"].pc \in {"idle", "done"}
  /\ \E url \in UrlArgs :
       LET h1 == switchToOllama(h, NoArg, url) IN
       /\ h' = h1
       /\ probe' = [probe EXCEPT !["switch"] =
                      startProbe(h1, getCurrentProvider(h), getCurrentModel(h))]
  /\ lastOp' = [NoOp EXCEPT !.op = "switchToOllama", !.state = "pending",
                            !.modelArg = NoArg]
  /\ rt' = NoTrip
  /\ nSwitch' = nSwitch + 1
  /\ UNCHANGED <<inst, ctorArgs, serverModels, lastRequest, streamVars, audioVars, opsVars>>

CallSwitchToGemini ==
  /\ inst = "ok" /\ nSwitch < MaxSwitches
  /\ \E apiKey \in ApiKeys :
       /\ h' = switchToGemini(h, apiKey)
       /\ rt' = nextTrip("gemini", apiKey \in {NoArg, rt.orig.model},
                         ~switchToGeminiThrows(h, apiKey))
       /\ lastOp' = [op |-> "switchToGemini",
                     state |-> IF switchToGeminiThrows(h, apiKey) THEN "threw" ELSE "returned",
                     modelArg |-> "-",
                     prevProvider |-> getCurrentProvider(h),
                     prevModel |-> getCurrentModel(h), detect |-> "-"]
  /\ nSwitch' = nSwitch + 1
  /\ UNCHANGED <<inst, ctorArgs, probe, serverModels, lastRequest, streamVars, audioVars, opsVars>>

CallSwitchToOpenAI ==
  /\ inst = "ok" /\ nSwitch < MaxSwitches
  /\ \E apiKey \in ApiKeys, mdl \in OpenAIModels :
       /\ h' = switchToOpenAI(h, apiKey, mdl)
       /\ rt' = nextTrip("openai", apiKey = rt.orig.openaiApiKey
                                    /\ Or(mdl, DefaultOpenAIModel) = rt.orig.openaiModel, TRUE)
       /\ lastOp' = [op |-> "switchToOpenAI", state |-> "returned", modelArg |-> mdl,
                     prevProvider |-> getCurrentProvider(h),
                     prevModel |-> getCurrentModel(h), detect |-> "-"]
  /\ nSwitch' = nSwitch + 1
  /\ UNCHANGED <<inst, ctorArgs, probe, serverModels, lastRequest, streamVars, audioVars, opsVars>>

\* what the caller of initializeOllamaModel does when it completes: the
\* constructor dropped the promise, switchToOllama returns
ProbeReturns(p, detect) ==
  IF p = "switch"
  THEN lastOp' = [op |-> "switchToOllama", state |-> "returned", modelArg |-> NoArg,
                  prevProvider |-> probe[p].prevProvider,
                  prevModel |-> probe[p].prevModel, detect |-> detect]
  ELSE UNCHANGED lastOp

DetectOf(p) ==
  IF probe[p].tags1 = "ok" /\ Len(serverModels) > 0 THEN "listed" ELSE "failed"

\* the first GET /api/tags of initializeOllamaModel completes
ProbeTags1(p) ==
  /\ probe[p].pc = "tags1"
  /\ \E outcome \in Outcomes :
       LET availableModels == getOllamaModelsResult(outcome, serverModels)
           r == autoSelect(h, availableModels)
       IN
       /\ h' = r.h
       /\ IF r.stop
          THEN /\ probe' = [probe EXCEPT ![p].pc = "done", ![p].tags1 = outcome]
               /\ ProbeReturns(p, "failed")
               /\ UNCHANGED lastRequest
          ELSE /\ probe' = [probe EXCEPT ![p].pc = "generate", ![p].tags1 = outcome]
               /\ lastRequest' = callOllama(r.h, "init")
               /\ UNCHANGED lastOp
  /\ UNCHANGED <<inst, ctorArgs, serverModels, nSwitch, rt, streamVars, audioVars, opsVars>>

\* the test generation callOllama("Hello") completes
ProbeGenerate(p) ==
  /\ probe[p].pc = "generate"
  /\ \E outcome \in Outcomes :
       IF outcome = "ok" \/ ~getOllamaModelsSends(h)
       THEN /\ probe' = [probe EXCEPT ![p].pc = "done"]
            /\ ProbeReturns(p, DetectOf(p))
       ELSE /\ probe' = [probe EXCEPT ![p].pc = "tags2"]
            /\ UNCHANGED lastOp
  /\ UNCHANGED <<inst, ctorArgs, h, serverModels, lastRequest, nSwitch, rt, streamVars, audioVars, opsVars>>

\* the second GET /api/tags, issued by the catch block, completes
ProbeTags2(p) ==
  /\ probe[p].pc = "tags2"
  /\ \E outcome \in Outcomes :
       h' = fallbackSelect(h, getOllamaModelsResult(outcome, serverModels))
  /\ probe' = [probe EXCEPT ![p].pc = "done"]
  /\ ProbeReturns(p, DetectOf(p))
  /\ UNCHANGED <<inst, ctorArgs, serverModels, lastRequest, nSwitch, rt, streamVars, audioVars, opsVars>>

\* chat(message): one generation request to the backend the flags select
CallChat ==
  /\ inst = "ok"
  /\ \E outcome \in Outcomes :
       LET req == chatWithGemini(h) IN
       /\ lastRequest' = req
       /\ lastOp' = [NoOp EXCEPT !.op = "chat",
                       !.state = IF req.backend = "none" \/ outcome # "ok"
                                 THEN "threw" ELSE "returned"]
  /\ UNCHANGED <<inst, ctorArgs, h, probe, serverModels, nSwitch, rt, streamVars, audioVars, opsVars>>

Next ==
  \/ Construct
  \/ CallSwitchToOllamaModel
  \/ CallSwitchToOllamaAuto
  \/ CallSwitchToGemini
  \/ CallSwitchToOpenAI
  \/ \E p \in ProbeIds : ProbeTags1(p)
  \/ \E p \in ProbeIds : ProbeGenerate(p)
  \/ \E p \in ProbeIds : ProbeTags2(p)
  \/ CallChat

Spec == Init /\ [][Next]_vars

TypeOK ==
  /\ inst \in {"none", "ok", "threw"}
  /\ h.useOllama \in BOOLEAN /\ h.useOpenAI \in BOOLEAN
  /\ nSwitch \in 0..MaxSwitches
  /\ \A p \in ProbeIds : probe[p].pc \in {"idle", "tags1", "generate", "tags2", "done"}

\* ===================================================== the stream decoder
\* The response body of the chat-completion call, as a sequence of tokens,
\* each standing for a piece of text that a read may end after:
\*   "P1" "P2"   the two halves `da` and `ta: ` of the prefix `data: `
\*   "Ja" "Jb"   a JSON frame whose choices[0].delta.content is "a" / "b"
\*   "J0"        a JSON frame without delta content
\*   "BAD"       text that is not well-formed JSON
\*   "DONE"      the text `[DONE]`
\*   "SP"        white space, "X" other text, "NL" the newline
PREFIX == <<"P1", "P2">>

LineShapes ==
  { PREFIX \o <<"Ja">>, PREFIX \o <<"Jb">>, PREFIX \o <<"J0">>,
    PREFIX \o <<"DONE">>, PREFIX \o <<"BAD">>, PREFIX \o <<"Ja", "SP">>,
    <<"SP">> \o PREFIX \o <<"Jb">>, <<"X">>, <<"SP">>, << >> }

Bodies == UNION { [1..n -> LineShapes] : n \in 0..MaxLines }

RECURSIVE Tokens(_)
Tokens(lines) ==
  IF lines = << >> THEN << >>
  ELSE Head(lines) \o <<"NL">> \o Tokens(Tail(lines))

\* chunk.split('\n')
RECURSIVE splitLines(_)
splitLines(chunk) ==
  IF \A i \in 1..Len(chunk) : chunk[i] # "NL" THEN <<chunk>>
  ELSE LET k == CHOOSE i \in 1..Len(chunk) :
                  chunk[i] = "NL" /\ \A j \in 1..(i-1) : chunk[j] # "NL"
       IN  <<SubSeq(chunk, 1, k-1)>> \o splitLines(SubSeq(chunk, k+1, Len(chunk)))

\* line.trim() !== ''
nonBlank(line) == \E i \in 1..Len(line) : line[i] # "SP"

\* line.startsWith('data: ')
startsWithData(line) == Len(line) >= 2 /\ SubSeq(line, 1, 2) = PREFIX

\* line.slice(6)
sliceData(line) == SubSeq(line, 3, Len(line))

\* JSON.parse(data) and parsed.choices?.[0]?.delta?.content: white space
\* around the value is accepted, anything else than one value throws
RECURSIVE trimSP(_)
trimSP(t) ==
  IF t # << >> /\ Head(t) = "SP" THEN trimSP(Tail(t))
  ELSE IF t # << >> /\ t[Len(t)] = "SP" THEN trimSP(SubSeq(t, 1, Len(t)-1))
  ELSE t

jsonParse(data) ==
  LET v == trimSP(data) IN
  IF v = <<"Ja">> THEN [throws |-> FALSE, content |-> "a"]
  ELSE IF v = <<"Jb">> THEN [throws |-> FALSE, content |-> "b"]
  ELSE IF v = <<"J0">> THEN [throws |-> FALSE, content |-> ""]
  ELSE [throws |-> TRUE, content |-> ""]

\* variant: fullContent = content instead of +=
appendContent_overwrite(acc, content) ==
  [acc EXCEPT !.full = <<content>>,
              !.delivered = IF acc.onChunk THEN Append(@, content) ELSE @,
              !.late = IF acc.sawDone THEN Append(@, content) ELSE @,
              !.threw = acc.onChunk /\ acc.throws]

\* variant: the callback is handed the text accumulated so far
appendContent_cumulative(acc, content) ==
  [acc EXCEPT !.full = Append(@, content),
              !.delivered = IF acc.onChunk THEN @ \o Append(acc.full, content) ELSE @,
              !.late = IF acc.sawDone THEN Append(@, content) ELSE @,
              !.threw = acc.onChunk /\ acc.throws]

\* fullContent += content; if (onChunk) onChunk(content): an exception of the
\* callback leaves the statement after the accumulator was extended
appendContent(acc, content) ==
  [acc EXCEPT !.full = Append(@, content),
              !.delivered = IF acc.onChunk THEN Append(@, content) ELSE @,
              !.late = IF acc.sawDone THEN Append(@, content) ELSE @,
              !.threw = acc.onChunk /\ acc.throws]

\* variant: no handler around the body of the iteration
catchInner_rethrow(acc) == acc

\* catch (e) { }  of the try block inside the loop: the exception is dropped
catchInner(acc) == [acc EXCEPT !.threw = FALSE]

\* one iteration of  for (const line of lines)
lineStep(acc, line) ==
  IF startsWithData(line) THEN
    LET data == sliceData(line) IN
    IF data = <<"DONE">> THEN [acc EXCEPT !.sawDone = TRUE]
    ELSE LET parsed == jsonParse(data) IN
         IF ~parsed.throws /\ parsed.content # ""
         THEN catchInner(appendContent(acc, parsed.content))
         ELSE acc
  ELSE acc

\* the loop ends early when an exception leaves an iteration
RECURSIVE forLines(_, _)
forLines(acc, lines) ==
  IF lines = << >> \/ acc.threw THEN acc
  ELSE forLines(lineStep(acc, Head(lines)), Tail(lines))

\* variant: the fragments of a read are handed over during the next read
processChunk_deferred(acc, chunk) ==
  LET split == splitLines(chunk)
      lines == SelectSeq(split, nonBlank)
      r     == forLines([acc EXCEPT !.seen = @ \o split], lines)
  IN  [r EXCEPT !.delivered = IF acc.onChunk THEN acc.full ELSE @]

\* the body of the while loop for one value returned by reader.read()
processChunk(acc, chunk) ==
  LET split == splitLines(chunk)
      lines == SelectSeq(split, nonBlank)
  IN  forLines([acc EXCEPT !.seen = @ \o split], lines)

Acc == [full |-> fullContent, delivered |-> delivered, onChunk |-> hasOnChunk,
        throws |-> onChunkThrows, threw |-> FALSE,
        sawDone |-> sawDone, late |-> lateContent, seen |-> seenLines]

InitStream ==
  /\ ProviderIdle /\ serverModels = << >>
  /\ AudioIdle
  /\ OpsIdle
  /\ body \in Bodies
  /\ hasOnChunk \in BOOLEAN
  /\ onChunkThrows \in (IF hasOnChunk THEN BOOLEAN ELSE {FALSE})
  /\ pos = 0 /\ nReads = 0 /\ spc = "reading"
  /\ fullContent = << >> /\ delivered = << >>
  /\ seenLines = << >> /\ sawDone = FALSE /\ lateContent = << >>

\* reader.read() resolves with the next n tokens of the body
ReadChunk ==
  /\ spc = "reading"
  /\ pos < Len(Tokens(body))
  /\ \E n \in 1..(Len(Tokens(body)) - pos) :
       /\ nReads + 1 < MaxReads \/ pos + n = Len(Tokens(body))
       /\ LET r == processChunk(Acc, SubSeq(Tokens(body), pos + 1, pos + n)) IN
          /\ fullContent' = r.full
          /\ delivered' = r.delivered
          /\ sawDone' = r.sawDone
          /\ lateContent' = r.late
          /\ seenLines' = r.seen
          /\ spc' = IF r.threw THEN "threw" ELSE spc
       /\ pos' = pos + n
  /\ nReads' = nReads + 1
  /\ UNCHANGED <<body, hasOnChunk, onChunkThrows, provVars, audioVars, opsVars>>

\* reader.read() resolves with done: callOpenAI returns fullContent
ReadDone ==
  /\ spc = "reading"
  /\ pos = Len(Tokens(body))
  /\ spc' = "returned"
  /\ UNCHANGED <<body, pos, nReads, hasOnChunk, onChunkThrows, fullContent, delivered,
                 seenLines, sawDone, lateContent, provVars, audioVars, opsVars>>

NextStream == ReadChunk \/ ReadDone

SpecStream == InitStream /\ [][NextStream]_vars

\* ------------------------------------------- operations other than switches
\* variant: testConnection falls back to Gemini
assignedFields_testConnection(name, hh) ==
  IF name = "testConnection" THEN [hh EXCEPT !.useOllama = FALSE] ELSE hh

\* the fields of the instance after a step of chat, generateSolution,
\* extractProblemFromImages, debugSolutionWithImages, analyzeImageFile,
\* analyzeAudioFile, analyzeAudioFromBase64, getOllamaModels, testConnection
\* and the private request helpers: none of them assigns to a field
assignedFields(name, hh) == hh

\* ========================================================= audio analysis
\* limit: 5 of the Weaviate GraphQL query and topK: 5 of the Kontext query
TopK == 5

KontextFlags == {NoArg, "true", "TRUE"}
Envs == [USE_KONTEXT : KontextFlags, WEAVIATE_URL : {NoArg, "w1"},
         WEAVIATE_API_KEY : {NoArg, "wk"}, KONTEXT_API_KEY : {NoArg, "kk"}]
WhisperTexts == {NoArg, "t1"}
CtxOutcomes == Outcomes \cup {"malformed"}

\* the helper after construction and at most one switch operation
CtorStates ==
  { r.h : r \in { c \in { constructor(k, uo, NoArg, NoArg, ua, NoArg) :
                            k \in ApiKeys, uo \in BOOLEAN, ua \in BOOLEAN } :
                   ~c.threw } }
HelperStates ==
  CtorStates
    \cup { switchToOllama(x, "a", NoArg) : x \in CtorStates }
    \cup UNION { { switchToGemini(x, k) :
                     k \in { kk \in ApiKeys : ~switchToGeminiThrows(x, kk) } } :
                   x \in CtorStates }
    \cup { switchToOpenAI(x, "k1", NoArg) : x \in CtorStates }

\* if (this.useOpenAI) { transcribe ... } else { Gemini }
audioBranch(hh) == IF hh.useOpenAI THEN "openai" ELSE "gemini"

\* variant: transcription failures are swallowed
transcribeAudioWithWhisper_swallow(outcome, text) ==
  [threw |-> FALSE, text |-> IF outcome = "ok" THEN Or(text, NoArg) ELSE NoArg]

\* transcribeAudioWithWhisper / transcribeAudioFromBase64WithWhisper:
\* response.data.text || '' on success, a wrapped error otherwise
transcribeAudioWithWhisper(outcome, text) ==
  [threw |-> outcome # "ok", text |-> IF outcome = "ok" THEN Or(text, NoArg) ELSE NoArg]

\* variant: any non-empty USE_KONTEXT selects Kontext
fetchContext_truthy(e) ==
  IF e.USE_KONTEXT # NoArg THEN "kontext" ELSE "weaviate"

\* fetchContext: process.env.USE_KONTEXT === 'true'
fetchContext(e) ==
  IF e.USE_KONTEXT = "true" THEN "kontext" ELSE "weaviate"

\* variant: the guard only stops when both credentials are missing
fetchWeaviateContextSends_either(e) ==
  ~(e.WEAVIATE_URL = NoArg /\ e.WEAVIATE_API_KEY = NoArg)

\* if (!weaviateURL || !weaviateApiKey) return ''
fetchWeaviateContextSends(e) ==
  ~(e.WEAVIATE_URL = NoArg \/ e.WEAVIATE_API_KEY = NoArg)

\* if (!kontextApiKey) return ''
fetchKontextContextSends(e) == e.KONTEXT_API_KEY # NoArg

\* variant: the lookup is made with an empty query
vaultQuery_blank(transcription) == [query |-> NoArg, limit |-> TopK]

\* nearText concepts / vault.query({query: transcription, topK: 5})
vaultQuery(transcription) == [query |-> transcription, limit |-> TopK]

\* results.map(...).filter(Boolean).join('\n\n'): one block per match of
\* the response, numbered from 1; a block is never empty
renderBlocks(n) == [i \in 1..n |-> i]

\* fetchWeaviateContext after its request: the catch returns ''; a body
\* without data.Get[collection] yields no results
fetchWeaviateContext(resp) ==
  [threw |-> FALSE,
   context |-> IF resp.outcome = "ok"
               THEN [answer |-> FALSE, blocks |-> renderBlocks(resp.hits)]
               ELSE NoContext]

\* variant: a failed lookup is thrown to the caller
fetchKontextContext_propagate(resp) ==
  [threw |-> resp.outcome \in {"status", "error"},
   context |-> IF resp.outcome = "ok"
               THEN [answer |-> resp.answer, blocks |-> renderBlocks(resp.hits)]
               ELSE NoContext]

\* fetchKontextContext after its query: the answer text first, then the hits
fetchKontextContext(resp) ==
  [threw |-> FALSE,
   context |-> IF resp.outcome = "ok"
               THEN [answer |-> resp.answer, blocks |-> renderBlocks(resp.hits)]
               ELSE NoContext]

\* context && context.trim().length > 0
hasContextSection(context) == context.answer \/ context.blocks # << >>

\* variant: the audio is left out of the request
generateContentAudio_promptOnly(variant) == FALSE

\* this.model.generateContent([prompt, audioPart])
generateContentAudio(variant) == TRUE

QueryEv(backend) == IF backend = "kontext" THEN "query:kontext" ELSE "query:weaviate"

\* variant: the generation request reuses the key of the transcription
callOpenAIHeaders_snapshot(a, hh) == [key |-> a.trKey, model |-> hh.openaiModel]

\* Authorization: `Bearer ${this.openaiApiKey}` and model: this.openaiModel,
\* read from the fields when callOpenAI builds its request
callOpenAIHeaders(a, hh) == [key |-> hh.openaiApiKey, model |-> hh.openaiModel]

\* the prompt is built and callOpenAI(messages, onStreamChunk) is called
toGenerate(a, context) ==
  [a EXCEPT !.pc = "generating", !.context = context,
            !.promptHasContext = hasContextSection(context),
            !.genCb = (a.variant = "base64" /\ a.cb),
            !.genKey = callOpenAIHeaders(a, h).key,
            !.genModel = callOpenAIHeaders(a, h).model]

\* the else branch up to  await this.model.generateContent(...)
geminiGenerate(a) ==
  IF h.model = NoHandle
  THEN [aud |-> [a EXCEPT !.pc = "failed", !.err = "TypeError"], ev |-> << >>]
  ELSE [aud |-> [a EXCEPT !.pc = "generating",
                          !.genAudio = generateContentAudio(a.variant)],
        ev |-> <<"generate:gemini">>]

InitAudio ==
  /\ inst = "ok" /\ h \in HelperStates
  /\ ctorArgs = NoCtorArgs /\ probe = [p \in ProbeIds |-> IdleProbe]
  /\ lastOp = NoOp /\ lastRequest = NoRequest /\ nSwitch = 0 /\ rt = NoTrip
  /\ serverModels = << >>
  /\ StreamIdle
  /\ env \in Envs
  /\ aud = NoAud /\ trace = << >> /\ queried = {} /\ nCalls = 0
  /\ OpsIdle

startAnalyze(variant, cb) ==
  /\ inst = "ok" /\ aud.pc \in {"idle", "done", "failed"}
  /\ nCalls < MaxCalls
  /\ nCalls' = nCalls + 1
  /\ LET a == [NoAud EXCEPT !.variant = variant, !.cb = cb, !.branch = audioBranch(h)] IN
     IF audioBranch(h) = "openai"
     THEN aud' = [a EXCEPT !.pc = "transcribing", !.trKey = h.openaiApiKey]
          /\ trace' = <<"transcribe">>
     ELSE IF variant = "file"
     THEN aud' = [a EXCEPT !.pc = "readFile"] /\ trace' = << >>
     ELSE aud' = geminiGenerate(a).aud /\ trace' = geminiGenerate(a).ev
  /\ UNCHANGED <<env, queried, provRest, streamVars, opsVars>>
  /\ h' = assignedFields(aud'.variant, h)

\* analyzeAudioFile(audioPath)
AnalyzeAudioFile == startAnalyze("file", FALSE)

\* analyzeAudioFromBase64(data, mimeType, onStreamChunk?)
AnalyzeAudioFromBase64 == \E cb \in BOOLEAN : startAnalyze("base64", cb)

\* fs.promises.readFile(audioPath) of the Gemini branch settles
ReadFileReturns ==
  /\ aud.pc = "readFile"
  /\ \E ok \in BOOLEAN :
       IF ok
       THEN aud' = geminiGenerate(aud).aud /\ trace' = trace \o geminiGenerate(aud).ev
       ELSE aud' = [aud EXCEPT !.pc = "failed", !.err = "readFile"] /\ trace' = trace
  /\ UNCHANGED <<env, queried, nCalls, provRest, streamVars, opsVars>>
  /\ h' = assignedFields(aud'.variant, h)

\* the transcription request settles; on success fetchContext(transcription)
\* runs up to its request, or to the prompt when the credentials are missing
WhisperReturns ==
  /\ aud.pc = "transcribing"
  /\ \E outcome \in Outcomes, text \in WhisperTexts :
       LET t       == transcribeAudioWithWhisper(outcome, text)
           backend == fetchContext(env)
           sends   == IF backend = "kontext" THEN fetchKontextContextSends(env)
                      ELSE fetchWeaviateContextSends(env)
           a       == [aud EXCEPT !.whisper = outcome, !.transcript = t.text,
                                  !.backend = backend]
       IN  IF t.threw
           THEN /\ aud' = [aud EXCEPT !.pc = "failed", !.err = "transcription",
                                      !.whisper = outcome]
                /\ UNCHANGED <<trace, queried>>
           ELSE IF sends
           THEN /\ aud' = [a EXCEPT !.pc = "context",
                                    !.query = vaultQuery(t.text).query,
                                    !.limit = vaultQuery(t.text).limit]
                /\ trace' = trace \o <<"fetchContext", QueryEv(backend)>>
                /\ queried' = queried \cup {backend}
           ELSE /\ aud' = toGenerate(a, NoContext)
                /\ trace' = trace \o <<"fetchContext", "generate:openai">>
                /\ UNCHANGED queried
  /\ UNCHANGED <<env, nCalls, provRest, streamVars, opsVars>>
  /\ h' = assignedFields(aud'.variant, h)

\* the context request settles; the prompt is built and generation starts
ContextReturns ==
  /\ aud.pc = "context"
  /\ \E outcome \in CtxOutcomes, n \in 0..MaxHits, answer \in BOOLEAN :
       LET resp == [outcome |-> outcome, hits |-> n, answer |-> answer]
           r    == IF aud.backend = "kontext" THEN fetchKontextContext(resp)
                   ELSE fetchWeaviateContext(resp)
       IN  IF r.threw
           THEN aud' = [aud EXCEPT !.pc = "failed", !.err = "context", !.resp = resp]
                /\ trace' = trace
           ELSE aud' = toGenerate([aud EXCEPT !.resp = resp], r.context)
                /\ trace' = Append(trace, "generate:openai")
  /\ UNCHANGED <<env, queried, nCalls, provRest, streamVars, opsVars>>
  /\ h' = assignedFields(aud'.variant, h)

\* the generation call settles: { text, timestamp } or the error rethrown
GenerateReturns ==
  /\ aud.pc = "generating"
  /\ \E outcome \in Outcomes :
       aud' = IF outcome = "ok"
              THEN [aud EXCEPT !.pc = "done", !.result = "text+timestamp"]
              ELSE [aud EXCEPT !.pc = "failed", !.err = "generation"]
  /\ UNCHANGED <<env, trace, queried, nCalls, provRest, streamVars, opsVars>>
  /\ h' = assignedFields(aud'.variant, h)

NextAudio ==
  \/ AnalyzeAudioFile
  \/ AnalyzeAudioFromBase64
  \/ ReadFileReturns
  \/ WhisperReturns
  \/ ContextReturns
  \/ GenerateReturns

SpecAudio == InitAudio /\ [][NextAudio]_vars

\* ======================================================= other operations
\* A response text as a sequence of tokens:
\*   "F"    the fence ```            "TAG"  the word json
\*   "J"    one well-formed JSON value, without surrounding white space
\*   "X"    text that is not JSON    "SP" a blank   "NL" the newline
Pads == UNION { [1..n -> {"SP", "NL"}] : n \in 0..MaxPad }
Opens == { << >>, <<"F", "NL">>, <<"F", "TAG", "NL">> }
Closes == { << >>, <<"NL", "F">>, <<"F">> }
Payloads == { <<"J">>, <<"X">>, << >> }
Texts ==
  { pre \o o \o b \o c \o post :
      pre \in Pads, o \in Opens, b \in Payloads, c \in Closes, post \in Pads }

\* text.replace(/^```(?:json)?\n/, '')
stripOpen(t) ==
  IF Len(t) >= 2 /\ t[1] = "F" /\ t[2] = "NL" THEN SubSeq(t, 3, Len(t))
  ELSE IF Len(t) >= 3 /\ t[1] = "F" /\ t[2] = "TAG" /\ t[3] = "NL"
  THEN SubSeq(t, 4, Len(t))
  ELSE t

\* .replace(/\n```$/, '')
stripClose(t) ==
  IF Len(t) >= 2 /\ t[Len(t) - 1] = "NL" /\ t[Len(t)] = "F"
  THEN SubSeq(t, 1, Len(t) - 2)
  ELSE t

\* text.trim()
IsWs(c) == c \in {"SP", "NL"}
RECURSIVE trim(_)
trim(t) ==
  IF t # << >> /\ IsWs(Head(t)) THEN trim(Tail(t))
  ELSE IF t # << >> /\ IsWs(t[Len(t)]) THEN trim(SubSeq(t, 1, Len(t) - 1))
  ELSE t

cleanJsonResponse(text) == trim(stripClose(stripOpen(text)))

\* JSON.parse(text) returns: one value, white space around it allowed
JSONparses(text) == trim(text) = <<"J">>

\* variant: text that does not parse yields an empty object
parseCleaned_default(text) ==
  [threw |-> FALSE, err |-> "-", cleaned |-> cleanJsonResponse(text)]

\* text = this.cleanJsonResponse(text); return JSON.parse(text)
parseCleaned(text) ==
  LET c == cleanJsonResponse(text) IN
  IF JSONparses(c) THEN [threw |-> FALSE, err |-> "-", cleaned |-> c]
  ELSE [threw |-> TRUE, err |-> "SyntaxError", cleaned |-> c]

\* callOllama after fetch settles: !response.ok throws an error naming the
\* status, which the catch wraps; otherwise data.response is returned
callOllamaReturns(outcome, text) ==
  IF outcome = "ok"
  THEN [threw |-> FALSE, err |-> "-", text |-> text, decoded |-> FALSE, chunks |-> FALSE]
  ELSE [threw |-> TRUE, err |-> outcome, text |-> << >>, decoded |-> FALSE, chunks |-> FALSE]

\* variant: the body is decoded whatever the status
callOpenAIReturns_ignoreStatus(outcome, text, onChunk) ==
  IF outcome \in {"ok", "status"}
  THEN [threw |-> FALSE, err |-> "-", text |-> text, decoded |-> TRUE,
        chunks |-> onChunk /\ text # << >>]
  ELSE [threw |-> TRUE, err |-> outcome, text |-> << >>, decoded |-> FALSE, chunks |-> FALSE]

\* callOpenAI after fetch settles: !response.ok throws an error naming the
\* status before the reader is taken; otherwise the body is decoded, each
\* fragment handed to onChunk, and the accumulated text returned
callOpenAIReturns(outcome, text, onChunk) ==
  IF outcome = "ok"
  THEN [threw |-> FALSE, err |-> "-", text |-> text, decoded |-> TRUE,
        chunks |-> onChunk /\ text # << >>]
  ELSE [threw |-> TRUE, err |-> outcome, text |-> << >>, decoded |-> FALSE, chunks |-> FALSE]

\* this.model.generateContent(...); (await result.response).text()
generateContentReturns(outcome, text) ==
  IF outcome = "ok"
  THEN [threw |-> FALSE, err |-> "-", text |-> text, decoded |-> FALSE, chunks |-> FALSE]
  ELSE [threw |-> TRUE, err |-> outcome, text |-> << >>, decoded |-> FALSE, chunks |-> FALSE]

\* variant: the error of the underlying call is thrown on
testConnectionResult_rethrow(backend, r) ==
  IF r.threw THEN [threw |-> TRUE, result |-> "-", err |-> r.err]
  ELSE IF backend # "ollama" /\ r.text = << >>
  THEN [threw |-> FALSE, result |-> "success=false", err |-> "empty"]
  ELSE [threw |-> FALSE, result |-> "success=true", err |-> "-"]

\* testConnection once its generation call has settled: the catch turns an
\* error into { success: false, error: error.message }; an empty text is a
\* failure under OpenAI and Gemini and is not looked at under Ollama
testConnectionResult(backend, r) ==
  IF r.threw THEN [threw |-> FALSE, result |-> "success=false", err |-> r.err]
  ELSE IF backend # "ollama" /\ r.text = << >>
  THEN [threw |-> FALSE, result |-> "success=false", err |-> "empty"]
  ELSE [threw |-> FALSE, result |-> "success=true", err |-> "-"]

Structured ==
  {"extractProblemFromImages", "generateSolution", "debugSolutionWithImages"}

\* a request goes out and the operation awaits its response
send(o, pc, kind, backend, media) ==
  [oper |-> [o EXCEPT !.pc = pc],
   reqs |-> Append(reqs, [kind |-> kind, backend |-> backend, media |-> media])]

\* the operation ends by throwing / by returning, without a request
fail(o, err) == [oper |-> [o EXCEPT !.pc = "threw", !.err = err], reqs |-> reqs]
return(o, result, err) ==
  [oper |-> [o EXCEPT !.pc = "done", !.result = result, !.err = err], reqs |-> reqs]

\* this.model.generateContent(...) on a handle that may be null
geminiCall(o, media) ==
  IF h.model = NoHandle THEN fail(o, "TypeError")
  ELSE send(o, "gemini", "generate", "gemini", media)

\* each operation from its entry to its first await
startOp(name, cb) ==
  LET o == [NoOperation EXCEPT !.name = name, !.cb = cb] IN
  CASE name \in {"extractProblemFromImages", "debugSolutionWithImages", "analyzeImageFile"}
         -> [oper |-> [o EXCEPT !.pc = "read"], reqs |-> << >>]
    [] name = "generateSolution"
         -> IF h.useOpenAI THEN send(o, "openai", "generate", "openai", "none")
            ELSE IF h.useOllama THEN send(o, "ollama", "generate", "ollama", "none")
            ELSE geminiCall(o, "none")
    [] name = "chat"
         -> IF h.useOpenAI THEN send(o, "openai", "generate", "openai", "none")
            ELSE IF h.useOllama THEN send(o, "ollama", "generate", "ollama", "none")
            ELSE IF h.model # NoHandle THEN send(o, "gemini", "generate", "gemini", "none")
            ELSE fail(o, "No LLM provider configured")
    [] name = "testConnection"
         -> IF h.useOpenAI THEN send(o, "openai", "generate", "openai", "none")
            ELSE IF h.useOllama THEN send(o, "tags", "tags", "ollama", "none")
            ELSE IF h.model = NoHandle
            THEN return(o, "success=false", "No Gemini model configured")
            ELSE send(o, "gemini", "generate", "gemini", "none")
    [] name = "getOllamaModels"
         -> IF getOllamaModelsSends(h) THEN send(o, "tags", "tags", "ollama", "none")
            ELSE return(o, "[]", "-")
    [] name = "transcribeAudioFromBase64WithWhisper"
         -> [oper |-> [o EXCEPT !.pc = "write"], reqs |-> << >>]
    [] name = "callOllama" -> send(o, "ollama", "generate", "ollama", "none")
    [] name = "callOpenAI" -> send(o, "openai", "generate", "openai", "none")

\* what an operation does with the settled generation call r
finish(o, backend, r, outcome) ==
  LET o1 == [o EXCEPT !.status = outcome, !.text = r.text,
                      !.decoded = r.decoded, !.chunks = r.chunks] IN
  IF o.name = "testConnection"
  THEN LET t == testConnectionResult(backend, r) IN
       IF t.threw THEN fail(o1, t.err) ELSE return(o1, t.result, t.err)
  ELSE IF r.threw THEN fail(o1, r.err)
  ELSE IF o.name \in Structured
  THEN LET q == parseCleaned(r.text) IN
       IF q.threw THEN fail([o1 EXCEPT !.cleaned = q.cleaned], q.err)
       ELSE return([o1 EXCEPT !.cleaned = q.cleaned], "parsed", "-")
  ELSE return(o1, "text", "-")

InitOps ==
  /\ inst = "ok" /\ h \in HelperStates
  /\ ctorArgs = NoCtorArgs /\ probe = [p \in ProbeIds |-> IdleProbe]
  /\ lastOp = NoOp /\ lastRequest = NoRequest /\ nSwitch = 0 /\ rt = NoTrip
  /\ serverModels = << >>
  /\ StreamIdle
  /\ AudioIdle
  /\ OpsIdle

Call(name, cb) ==
  /\ inst = "ok" /\ oper.pc \in {"idle", "done", "threw"}
  /\ nOps < MaxOps
  /\ nOps' = nOps + 1
  /\ oper' = startOp(name, cb).oper
  /\ reqs' = startOp(name, cb).reqs
  /\ UNCHANGED <<tmpFile, tmp, provRest, streamVars, audioVars>>
  /\ h' = assignedFields(oper'.name, h)

CallExtractProblemFromImages == Call("extractProblemFromImages", FALSE)
CallGenerateSolution == Call("generateSolution", FALSE)
CallDebugSolutionWithImages == Call("debugSolutionWithImages", FALSE)
CallAnalyzeImageFile == Call("analyzeImageFile", FALSE)
CallChatWithGemini == Call("chat", FALSE)
CallTestConnection == Call("testConnection", FALSE)
CallGetOllamaModels == Call("getOllamaModels", FALSE)
CallTranscribeAudioFromBase64 == Call("transcribeAudioFromBase64WithWhisper", FALSE)
CallCallOllama == Call("callOllama", FALSE)
CallCallOpenAI == \E cb \in BOOLEAN : Call("callOpenAI", cb)

\* fs.promises.readFile of the image(s) settles
FileReturns ==
  /\ oper.pc = "read"
  /\ \E ok \in BOOLEAN :
       LET r == IF ~ok THEN fail(oper, "readFile")
                ELSE IF oper.name = "analyzeImageFile" /\ h.useOpenAI
                THEN send(oper, "openai", "generate", "openai", "image")
                ELSE geminiCall(oper, "image")
       IN  oper' = r.oper /\ reqs' = r.reqs
  /\ UNCHANGED <<tmpFile, nOps, tmp, provRest, streamVars, audioVars>>
  /\ h' = assignedFields(oper'.name, h)

\* the fetch of callOllama settles
OllamaReturns ==
  /\ oper.pc = "ollama"
  /\ \E outcome \in Outcomes, text \in Texts :
       LET r == finish(oper, "ollama", callOllamaReturns(outcome, text), outcome)
       IN  oper' = r.oper /\ reqs' = r.reqs
  /\ UNCHANGED <<tmpFile, nOps, tmp, provRest, streamVars, audioVars>>
  /\ h' = assignedFields(oper'.name, h)

\* the fetch of callOpenAI settles and, on success, its body is decoded
OpenAIReturns ==
  /\ oper.pc = "openai"
  /\ \E outcome \in Outcomes, text \in Texts :
       LET r == finish(oper, "openai", callOpenAIReturns(outcome, text, oper.cb), outcome)
       IN  oper' = r.oper /\ reqs' = r.reqs
  /\ UNCHANGED <<tmpFile, nOps, tmp, provRest, streamVars, audioVars>>
  /\ h' = assignedFields(oper'.name, h)

\* generateContent settles
GeminiReturns ==
  /\ oper.pc = "gemini"
  /\ \E outcome \in Outcomes, text \in Texts :
       LET r == finish(oper, "gemini", generateContentReturns(outcome, text), outcome)
       IN  oper' = r.oper /\ reqs' = r.reqs
  /\ UNCHANGED <<tmpFile, nOps, tmp, provRest, streamVars, audioVars>>
  /\ h' = assignedFields(oper'.name, h)

\* GET /api/tags settles: for getOllamaModels, and for checkOllamaAvailable
\* of testConnection, which goes on to callOllama("Hello") when available
TagsReturns ==
  /\ oper.pc = "tags"
  /\ \E outcome \in Outcomes, listed \in ServerLists :
       LET o1 == [oper EXCEPT !.status = outcome]
           r  == IF oper.name = "getOllamaModels"
                 THEN return(o1, IF getOllamaModelsResult(outcome, listed) = << >>
                                 THEN "[]" ELSE "models", "-")
                 ELSE IF outcome # "ok"
                 THEN return(o1, "success=false", "Ollama not available")
                 ELSE send(o1, "ollama", "generate", "ollama", "none")
       IN  oper' = r.oper /\ reqs' = r.reqs
  /\ UNCHANGED <<tmpFile, nOps, tmp, provRest, streamVars, audioVars>>
  /\ h' = assignedFields(oper'.name, h)

\* fs.promises.writeFile(tempFilePath, audioBuffer) settles; a failed write
\* may or may not leave a file behind
WriteReturns ==
  /\ oper.pc = "write"
  /\ \E ok \in BOOLEAN, left \in BOOLEAN :
       IF ok
       THEN /\ tmpFile' = TRUE
            /\ oper' = send(oper, "whisper", "transcribe", "openai", "audio").oper
            /\ reqs' = send(oper, "whisper", "transcribe", "openai", "audio").reqs
       ELSE /\ tmpFile' = (tmpFile \/ left)
            /\ oper' = fail(oper, "writeFile").oper
            /\ reqs' = reqs
  /\ UNCHANGED <<nOps, tmp, provRest, streamVars, audioVars>>
  /\ h' = assignedFields(oper'.name, h)

\* transcribeAudioWithWhisper(tempFilePath) settles; the finally block runs
TranscriptionReturns ==
  /\ oper.pc = "whisper"
  /\ \E outcome \in Outcomes :
       oper' = [oper EXCEPT !.pc = "unlink", !.status = outcome]
  /\ UNCHANGED <<reqs, tmpFile, nOps, tmp, provRest, streamVars, audioVars>>
  /\ h' = assignedFields(oper'.name, h)

\* fs.promises.unlink(tempFilePath).catch(() => {}) settles; the call then
\* returns the transcript or throws the wrapped transcription error
UnlinkReturns ==
  /\ oper.pc = "unlink"
  /\ \E ok \in BOOLEAN :
       /\ tmpFile' = IF ok THEN FALSE ELSE tmpFile
       /\ oper' = IF transcribeAudioWithWhisper(oper.status, "t1").threw
                  THEN [oper EXCEPT !.pc = "threw", !.err = "transcription",
                                    !.result = IF ok THEN "-" ELSE "unlink failed"]
                  ELSE [oper EXCEPT !.pc = "done",
                                    !.result = IF ok THEN "text" ELSE "text, unlink failed"]
  /\ UNCHANGED <<reqs, nOps, tmp, provRest, streamVars, audioVars>>
  /\ h' = assignedFields(oper'.name, h)

NextOps ==
  \/ CallExtractProblemFromImages
  \/ CallGenerateSolution
  \/ CallDebugSolutionWithImages
  \/ CallAnalyzeImageFile
  \/ CallChatWithGemini
  \/ CallTestConnection
  \/ CallGetOllamaModels
  \/ CallTranscribeAudioFromBase64
  \/ CallCallOllama
  \/ CallCallOpenAI
  \/ FileReturns
  \/ OllamaReturns
  \/ OpenAIReturns
  \/ GeminiReturns
  \/ TagsReturns
  \/ WriteReturns
  \/ TranscriptionReturns
  \/ UnlinkReturns

SpecOps == InitOps /\ [][NextOps]_vars

\* ================================ concurrent base64 transcription calls
\* `/tmp/audio-${Date.now()}.mp3`: the path is determined by the millisecond
\* clock alone, so a path is represented by the clock value it embeds
tempFilePath(now) == now

\* fs.promises.writeFile(path, bytes): creates or replaces the file
writeFile(disk, path, bytes) == [disk EXCEPT ![path] = bytes]

\* fs.createReadStream(path) as consumed by the upload: the bytes on disk
\* at that moment, or -1 for the ENOENT error of a missing file
createReadStream(disk, path) == IF disk[path] = 0 THEN -1 ELSE disk[path]

\* the millisecond clock advances
Tick ==
  /\ tmp.now < MaxTicks
  /\ tmp' = [tmp EXCEPT !.now = @ + 1]
  /\ UNCHANGED <<oper, reqs, tmpFile, nOps, provVars, streamVars, audioVars>>

\* transcribeAudioFromBase64WithWhisper(data) up to  await writeFile(...)
TmpCall(c) ==
  /\ inst = "ok" /\ tmp.call[c].pc = "idle"
  /\ tmp' = [tmp EXCEPT !.call[c] = [pc |-> "write", path |-> tempFilePath(tmp.now),
                                      sent |-> 0]]
  /\ UNCHANGED <<oper, reqs, tmpFile, nOps, provVars, streamVars, audioVars>>

\* the write settles; on success transcribeAudioWithWhisper opens the stream
TmpWriteReturns(c) ==
  /\ tmp.call[c].pc = "write"
  /\ \E ok \in BOOLEAN :
       tmp' = IF ok
              THEN [tmp EXCEPT !.disk = writeFile(tmp.disk, tmp.call[c].path, c),
                               !.call[c].pc = "open"]
              ELSE [tmp EXCEPT !.call[c].pc = "threw"]
  /\ UNCHANGED <<oper, reqs, tmpFile, nOps, provVars, streamVars, audioVars>>

\* axios.post consumes the stream and sends the request
TmpUpload(c) ==
  /\ tmp.call[c].pc = "open"
  /\ tmp' = [tmp EXCEPT !.call[c].pc = "posted",
                        !.call[c].sent = createReadStream(tmp.disk, tmp.call[c].path)]
  /\ UNCHANGED <<oper, reqs, tmpFile, nOps, provVars, streamVars, audioVars>>

\* the transcription request settles; the finally block starts the unlink
TmpTranscriptionReturns(c) ==
  /\ tmp.call[c].pc = "posted"
  /\ tmp' = [tmp EXCEPT !.call[c].pc = "unlink"]
  /\ UNCHANGED <<oper, reqs, tmpFile, nOps, provVars, streamVars, audioVars>>

\* fs.promises.unlink(path).catch(() => {}) settles (a missing file is
\* ignored) and the call returns or rethrows
TmpUnlinkReturns(c) ==
  /\ tmp.call[c].pc = "unlink"
  /\ tmp' = [tmp EXCEPT !.disk[tmp.call[c].path] = 0,
                        !.call[c].pc = "done"]
  /\ UNCHANGED <<oper, reqs, tmpFile, nOps, provVars, streamVars, audioVars>>

NextTmp ==
  \/ Tick
  \/ \E c \in Callers : TmpCall(c)
  \/ \E c \in Callers : TmpWriteReturns(c)
  \/ \E c \in Callers : TmpUpload(c)
  \/ \E c \in Callers : TmpTranscriptionReturns(c)
  \/ \E c \in Callers : TmpUnlinkReturns(c)

SpecTmp == InitOps /\ [][NextTmp]_vars

\* ============================== operations with switches called in between
\* Nothing serializes the operations of one instance: while an audio analysis
\* waits for a response, a switchToOpenAI call can run.  The two groups of
\* operations share no state but the fields, so each is explored on its own.
SwitchToOpenAIMeanwhile ==
  /\ inst = "ok" /\ nSwitch < MaxSwitches
  /\ aud.pc \in {"transcribing", "context"}
  /\ \E apiKey \in ApiKeys, mdl \in OpenAIModels :
       h' = switchToOpenAI(h, apiKey, mdl)
  /\ nSwitch' = nSwitch + 1
  /\ UNCHANGED <<inst, ctorArgs, probe, serverModels, lastOp, lastRequest, rt,
                 streamVars, audioVars, opsVars>>

NextConcurrent ==
  \/ OpsIdle /\ (NextAudio \/ SwitchToOpenAIMeanwhile)
  \/ AudioIdle /\ nSwitch = 0 /\ NextOps

SpecConcurrent == InitAudio /\ [][NextConcurrent]_vars

\* =========================== the earlier copy of the class (part_003)
\* The same class without the stream callback and the Kontext lookup.  Its
\* field initialisers are those of FieldInit.
constructorPrev(apiKey, useOllama, ollamaModel, ollamaUrl, useOpenAI, openaiModel) ==
  LET h0 == [FieldInit EXCEPT !.useOllama = useOllama, !.useOpenAI = useOpenAI] IN
  IF useOpenAI THEN
    [ h     |-> [h0 EXCEPT !.openaiApiKey = Or(apiKey, NoArg),
                           !.openaiModel  = Or(openaiModel, "gpt-4o")],
      threw |-> (Or(apiKey, NoArg) = NoArg),
      init  |-> FALSE ]
  ELSE IF useOllama THEN
    [ h     |-> [h0 EXCEPT !.ollamaUrl   = Or(ollamaUrl, "http://localhost:11434"),
                           !.ollamaModel = Or(ollamaModel, "gemma:latest")],
      threw |-> FALSE,
      init  |-> TRUE ]
  ELSE IF apiKey # NoArg THEN
    [ h |-> [h0 EXCEPT !.model = apiKey], threw |-> FALSE, init |-> FALSE ]
  ELSE
    [ h |-> h0, threw |-> TRUE, init |-> FALSE ]

\* variant: switching to Ollama clears the OpenAI flag
switchToOllamaPrev_exclusive(hh, mdl, url) ==
  LET h1 == [hh EXCEPT !.useOllama = TRUE, !.useOpenAI = FALSE]
      h2 == IF url # NoArg THEN [h1 EXCEPT !.ollamaUrl = url] ELSE h1
  IN  IF mdl # NoArg THEN [h2 EXCEPT !.ollamaModel = mdl] ELSE h2

switchToOllamaPrev(hh, mdl, url) ==
  LET h1 == [hh EXCEPT !.useOllama = TRUE]
      h2 == IF url # NoArg THEN [h1 EXCEPT !.ollamaUrl = url] ELSE h1
  IN  IF mdl # NoArg THEN [h2 EXCEPT !.ollamaModel = mdl] ELSE h2

\* if (!this.model && !apiKey) throw, after the handle has been replaced
switchToGeminiThrowsPrev(hh, apiKey) ==
  (IF apiKey # NoArg THEN apiKey ELSE hh.model) = NoHandle /\ apiKey = NoArg

switchToGeminiPrev(hh, apiKey) ==
  LET h1 == IF apiKey # NoArg THEN [hh EXCEPT !.model = apiKey] ELSE hh
  IN  IF switchToGeminiThrowsPrev(hh, apiKey) THEN h1
      ELSE [h1 EXCEPT !.useOllama = FALSE, !.useOpenAI = FALSE]

switchToOpenAIPrev(hh, apiKey, mdl) ==
  [hh EXCEPT !.openaiApiKey = apiKey,
             !.openaiModel  = Or(mdl, "gpt-4o"),
             !.useOpenAI    = TRUE,
             !.useOllama    = FALSE]

\* getOllamaModels: if (!this.useOllama) return []; [] on any failure
getOllamaModelsSendsPrev(hh) == hh.useOllama
getOllamaModelsResultPrev(outcome, listed) ==
  IF outcome = "ok" THEN listed ELSE << >>

\* initializeOllamaModel between the first listing and the test generation
autoSelectPrev(hh, availableModels) ==
  IF Len(availableModels) = 0 THEN [h |-> hh, stop |-> TRUE]
  ELSE IF ~Includes(availableModels, hh.ollamaModel)
       THEN [h |-> [hh EXCEPT !.ollamaModel = availableModels[1]], stop |-> FALSE]
       ELSE [h |-> hh, stop |-> FALSE]

\* the catch block of initializeOllamaModel
fallbackSelectPrev(hh, models) ==
  IF Len(models) > 0 THEN [hh EXCEPT !.ollamaModel = models[1]] ELSE hh

\* one iteration of the for loop of callOpenAI: fullContent += content
lineStepPrev(full, line) ==
  IF startsWithData(line) THEN
    LET data == sliceData(line) IN
    IF data = <<"DONE">> THEN full
    ELSE LET parsed == jsonParse(data) IN
         IF ~parsed.throws /\ parsed.content # ""
         THEN Append(full, parsed.content)
         ELSE full
  ELSE full

RECURSIVE forLinesPrev(_, _)
forLinesPrev(full, lines) ==
  IF lines = << >> THEN full
  ELSE forLinesPrev(lineStepPrev(full, Head(lines)), Tail(lines))

\* the body of the while loop of callOpenAI for one read
processChunkPrev(full, chunk) ==
  forLinesPrev(full, SelectSeq(splitLines(chunk), nonBlank))

\* the provider machine and the decoder of the current class, side by side
NextBoth ==
  \/ StreamIdle /\ Next
  \/ NextStream

SpecBoth == (Init \/ InitStream) /\ [][NextBoth]_vars

\* ================================================================= claims
SwitchOps == {"switchToOllama", "switchToGemini", "switchToOpenAI"}
TargetOf(op) == CASE op = "switchToOllama" -> "ollama"
                  [] op = "switchToGemini" -> "gemini"
                  [] op = "switchToOpenAI" -> "openai"
                  [] OTHER -> "-"

OllamaCtor == inst # "none" /\ ctorArgs.useOllama /\ ~ctorArgs.useOpenAI
ConfiguredModel == Or(ctorArgs.ollamaModel, CtorOllamaModel)

\* C1: in every state reachable by construction and switch calls the flags
\* useOllama and useOpenAI are never both true.
C1_OneProviderActive ==
  inst = "ok" => ~(isUsingOllama(h) /\ isUsingOpenAI(h))

\* C2: when a switch operation has returned without error, getCurrentProvider()
\* is the requested provider and a chat() would send its request to that
\* provider's backend.
C2_SwitchInstalls ==
  (lastOp.op \in SwitchOps /\ lastOp.state = "returned")
    => /\ getCurrentProvider(h) = TargetOf(lastOp.op)
       /\ chatWithGemini(h).backend = TargetOf(lastOp.op)

\* C3: when switchToOllama without a model has returned and its auto-detection
\* failed, the provider and model that were active before the call are still
\* the active ones.
C3_NoLeakOnFailedDetect ==
  (lastOp.op = "switchToOllama" /\ lastOp.state = "returned"
     /\ lastOp.modelArg = NoArg /\ lastOp.detect = "failed")
    => /\ getCurrentProvider(h) = lastOp.prevProvider
       /\ getCurrentModel(h) = lastOp.prevModel

\* the configuration fields that belong to provider p
OwnConfig(hh, p) ==
  CASE p = "ollama" -> <<hh.ollamaUrl, hh.ollamaModel>>
    [] p = "openai" -> <<hh.openaiApiKey, hh.openaiModel>>
    [] OTHER        -> <<hh.model # NoHandle>>

\* C4: after switching from provider P with model M to a different provider
\* and back to P with P's original arguments, getCurrentProvider() is P,
\* getCurrentModel() is M, and the provider flags and P's own url/model or
\* key/model have their values from before the round trip.
C4_RoundTrip ==
  rt.stage = 2
    => /\ getCurrentProvider(h) = getCurrentProvider(rt.orig)
       /\ getCurrentModel(h) = getCurrentModel(rt.orig)
       /\ h.useOllama = rt.orig.useOllama /\ h.useOpenAI = rt.orig.useOpenAI
       /\ OwnConfig(h, getCurrentProvider(rt.orig))
            = OwnConfig(rt.orig, getCurrentProvider(rt.orig))

\* C5: construction throws exactly when OpenAI mode is selected without an
\* API key, or when neither OpenAI mode, Ollama mode nor an API key is given.
C5_ConstructionFails ==
  inst # "none"
    => ( inst = "threw"
           <=> \/ ctorArgs.useOpenAI /\ ctorArgs.apiKey = NoArg
               \/ ~ctorArgs.useOpenAI /\ ~ctorArgs.useOllama /\ ctorArgs.apiKey = NoArg )

C5_Witness ==
  inst = "threw" /\ ctorArgs.useOpenAI /\ ctorArgs.apiKey = NoArg

\* C6: after Ollama-mode construction, once the probe has completed with a
\* non-empty listing that lacks the configured model, construction has not
\* failed and getCurrentModel() is the first listed model.
C6_AutoSelectFirst ==
  (OllamaCtor /\ nSwitch = 0 /\ probe["ctor"].pc = "done" /\ probe["ctor"].tags1 = "ok"
     /\ Len(serverModels) > 0 /\ ~Includes(serverModels, ConfiguredModel))
    => inst = "ok" /\ getCurrentModel(h) = serverModels[1]

C6_Witness ==
  /\ OllamaCtor /\ nSwitch = 0 /\ probe["ctor"].pc = "done" /\ probe["ctor"].tags1 = "ok"
  /\ ctorArgs.ollamaModel = "c" /\ serverModels = <<"a", "b">>
  /\ getCurrentModel(h) = "a"

\* C7: when the probe of an Ollama-mode construction fails (transport error or
\* non-OK status), construction has not thrown, the probe is over without a
\* test generation, the configured model name is unchanged and a chat() sends
\* its generate request to the local server with that model name.
C7_ProbeFailureIsLazy ==
  (OllamaCtor /\ nSwitch = 0 /\ probe["ctor"].tags1 \in {"status", "error"})
    => /\ inst = "ok" /\ probe["ctor"].pc = "done"
       /\ h.ollamaModel = ConfiguredModel
       /\ lastRequest.by # "init"
       /\ lastRequest.by = "chat"
            => lastRequest.backend = "ollama" /\ lastRequest.model = ConfiguredModel

C7_Witness ==
  /\ OllamaCtor /\ nSwitch = 0 /\ probe["ctor"].tags1 = "status"
  /\ ctorArgs.ollamaModel = "c" /\ Len(serverModels) > 0
  /\ lastOp.op = "chat" /\ lastOp.state = "threw"
  /\ lastRequest = [by |-> "chat", backend |-> "ollama", model |-> "c"]

\* what one read of the whole body decodes to
SingleRead ==
  processChunk([full |-> << >>, delivered |-> << >>, onChunk |-> FALSE,
                throws |-> FALSE, threw |-> FALSE,
                sawDone |-> FALSE, late |-> << >>, seen |-> << >>], Tokens(body)).full

\* C8: once a `data: [DONE]` line has been seen, no later data line adds text
\* to the result or triggers onChunk.
C8_DoneTerminates ==
  lateContent = << >>

\* C9: whatever the partition of the body into reads (JSON frames are never
\* split), the returned text equals the text of a single read of the body.
C9_PartitionInvariant ==
  spc = "returned" => fullContent = SingleRead

\* The text a line contributes according to the claim: the delta content of
\* a line made of the prefix and one well-formed JSON frame, else nothing.
Spaces(n) == [i \in 1..n |-> "SP"]
FrameContent == [Ja |-> <<"a">>, Jb |-> <<"b">>, J0 |-> << >>]

ExpectedOfLine(line) ==
  IF \E j \in DOMAIN FrameContent, pre \in 0..Len(line), post \in 0..Len(line) :
       line = PREFIX \o Spaces(pre) \o <<j>> \o Spaces(post)
  THEN FrameContent[CHOOSE j \in DOMAIN FrameContent :
         \E pre \in 0..Len(line), post \in 0..Len(line) :
           line = PREFIX \o Spaces(pre) \o <<j>> \o Spaces(post)]
  ELSE << >>

RECURSIVE Expected(_)
Expected(lines) ==
  IF lines = << >> THEN << >>
  ELSE ExpectedOfLine(Head(lines)) \o Expected(Tail(lines))

\* C10: the returned text is the in-order concatenation of the delta contents
\* of the lines that start with `data: ` and carry well-formed JSON; every
\* other line contributes nothing.  The lines are those the decoder splits
\* out of its reads, which are the lines of the body when it arrives in one
\* read.
C10_ConcatOfDataLines ==
  spc = "returned"
    => /\ fullContent = Expected(seenLines)
       /\ nReads <= 1 => fullContent = Expected(body)

C10_Witness ==
  /\ spc = "returned" /\ nReads = 1
  /\ body = << PREFIX \o <<"Ja">>, PREFIX \o <<"DONE">> >>
  /\ fullContent = <<"a">>

\* C11: when a stream callback is supplied, the text the chat-completion call
\* returns (which analyzeAudioFromBase64 returns unchanged as `text`) is the
\* in-order concatenation of every chunk the callback was handed.
C11_ReturnIsConcatOfChunks ==
  (hasOnChunk /\ spc = "returned") => fullContent = delivered

C11_Witness ==
  /\ hasOnChunk /\ spc = "returned" /\ nReads = 2
  /\ delivered = <<"a", "b">> /\ fullContent = <<"a", "b">>

\* C12: whenever the decoder is about to request a further read, and when it
\* returns, every fragment decoded from the reads so far has already been
\* handed to the callback: delivery never waits for the rest of the body.
C12_DeliveredBeforeNextRead ==
  hasOnChunk => delivered = Expected(seenLines)

C12_Witness ==
  /\ hasOnChunk /\ spc = "reading" /\ nReads = 1
  /\ pos < Len(Tokens(body))
  /\ delivered = <<"a">>

\* the audio operation has passed its provider test and all it did up to
\* its first generation request, or has ended
Started == aud.pc \in {"context", "generating", "done", "failed"}

C14_TranscriptionFailureStops ==
  aud.whisper \in {"status", "error"}
    => /\ aud.pc = "failed" /\ aud.err = "transcription"
       /\ trace = <<"transcribe">>

C14_Witness ==
  /\ aud.whisper = "error" /\ aud.pc = "failed" /\ aud.branch = "openai"
  /\ fetchContext(env) = "weaviate" /\ fetchWeaviateContextSends(env)

Ended == aud.pc \in {"done", "failed"}

\* C15 as stated: with Gemini active, an audio analysis that has ended made
\* no transcription request and no context query, and exactly one generation
\* call, which carried the audio as inline media.
C15_ExactlyOneGeneration ==
  (Ended /\ getCurrentProvider(h) = "gemini")
    => trace = <<"generate:gemini">> /\ aud.genAudio

\* C15: with Gemini active, an audio analysis makes no transcription request
\* and no context query; it makes at most one generation call, carrying the
\* audio as inline media, and exactly one unless analyzeAudioFile could not
\* read the audio file, in which case it fails without any request.
C15_GeminiDirect ==
  (aud.pc # "idle" /\ getCurrentProvider(h) = "gemini")
    => /\ queried = {}
       /\ IF aud.pc = "readFile" \/ aud.err = "readFile"
          THEN aud.variant = "file" /\ trace = << >>
          ELSE trace = <<"generate:gemini">> /\ aud.genAudio

C15_Witness ==
  /\ getCurrentProvider(h) = "gemini" /\ aud.pc = "done" /\ aud.variant = "file"
  /\ trace = <<"generate:gemini">> /\ aud.genAudio
  /\ fetchContext(env) = "kontext" /\ fetchKontextContextSends(env)

\* C16: under OpenAI, an audio analysis that has returned made, in this
\* order and once each, the transcription request, the context lookup and
\* the generation call; a query sent by the lookup carried the transcript;
\* the value returned is { text, timestamp }.
C16_OpenAIPipeline ==
  (aud.pc = "done" /\ getCurrentProvider(h) = "openai")
    => /\ \/ trace = <<"transcribe", "fetchContext", "generate:openai">>
          \/ trace = <<"transcribe", "fetchContext", QueryEv(aud.backend), "generate:openai">>
       /\ Includes(trace, QueryEv(aud.backend))
            => aud.query = aud.transcript /\ aud.transcript \in WhisperTexts
       /\ aud.whisper = "ok"
       /\ aud.result = "text+timestamp"

C16_Witness ==
  /\ aud.pc = "done" /\ getCurrentProvider(h) = "openai"
  /\ trace = <<"transcribe", "fetchContext", "query:kontext", "generate:openai">>
  /\ aud.transcript = "t1" /\ aud.query = "t1" /\ aud.promptHasContext

\* C17: when the context request of either backend fails (transport error,
\* error status, or a body without the expected result list), the lookup
\* yields the empty context: the analysis goes on to the generation call
\* with a prompt that has no context section, and can only fail on the
\* generation itself.
C17_ContextFailureSwallowed ==
  aud.resp.outcome \in {"status", "error", "malformed"}
    => /\ aud.context = NoContext /\ ~aud.promptHasContext
       /\ aud.pc \in {"generating", "done", "failed"}
       /\ aud.pc = "failed" => aud.err = "generation"
       /\ trace = <<"transcribe", "fetchContext", QueryEv(aud.backend), "generate:openai">>

C17_Witness ==
  /\ aud.resp.outcome = "error" /\ aud.backend = "kontext"
  /\ aud.pc = "done" /\ ~aud.promptHasContext

\* the credentials of the backend that USE_KONTEXT selects are incomplete
CredsMissing ==
  IF env.USE_KONTEXT = "true" THEN env.KONTEXT_API_KEY = NoArg
  ELSE env.WEAVIATE_URL = NoArg \/ env.WEAVIATE_API_KEY = NoArg

\* C18: when the Weaviate URL or key, or the Kontext key, is not configured,
\* a context lookup sends no request to the backend, raises nothing and
\* yields the empty context: the analysis goes straight to the generation.
C18_NoCredentialsNoRequest ==
  CredsMissing
    => /\ queried = {}
       /\ aud.whisper = "ok"
            => /\ trace = <<"transcribe", "fetchContext", "generate:openai">>
               /\ aud.context = NoContext /\ aud.err \in {"-", "generation"}

C18_Witness ==
  /\ env.USE_KONTEXT # "true"
  /\ env.WEAVIATE_URL # NoArg /\ env.WEAVIATE_API_KEY = NoArg
  /\ aud.whisper = "ok" /\ aud.pc = "done"
  /\ trace = <<"transcribe", "fetchContext", "generate:openai">>

\* the backend the configuration names: Kontext exactly when USE_KONTEXT is
\* the string 'true'
Selected == IF env.USE_KONTEXT = "true" THEN "kontext" ELSE "weaviate"
Count(s, x) == Cardinality({ i \in 1..Len(s) : s[i] = x })

\* C19: a context lookup consults exactly the backend the configuration
\* names and sends at most one query, to that backend; over all calls no
\* query ever goes to the other backend, also not after a failed lookup.
C19_OneBackendByConfig ==
  /\ queried \subseteq {Selected}
  /\ aud.backend # "-" => aud.backend = Selected
  /\ Count(trace, "query:kontext") + Count(trace, "query:weaviate") <= 1
  /\ Count(trace, QueryEv(Selected)) = Count(trace, "query:kontext") + Count(trace, "query:weaviate")

C19_Witness ==
  /\ env.USE_KONTEXT = "TRUE" /\ env.KONTEXT_API_KEY # NoArg
  /\ fetchWeaviateContextSends(env)
  /\ nCalls = 2 /\ queried = {"weaviate"}
  /\ aud.resp.outcome = "error" /\ aud.pc = "done"

\* C20: the context text a lookup yields holds at most five rendered match
\* blocks, whatever the number of matches in the backend's response.
C20_AtMostFiveBlocks ==
  Len(aud.context.blocks) <= 5

\* C21: once transcribeAudioFromBase64WithWhisper has returned or thrown,
\* the temporary audio file it created is no longer on disk, whether the
\* transcription succeeded or failed and whether or not the deletion step
\* itself failed.  (Stated for the calls that got as far as the
\* transcription request, i.e. whose file was written in full.)
C21_TempFileRemoved ==
  (oper.name = "transcribeAudioFromBase64WithWhisper"
     /\ oper.pc \in {"done", "threw"} /\ oper.status \in Outcomes)
    => ~tmpFile

\* C22: in extractProblemFromImages, generateSolution and
\* debugSolutionWithImages, under every provider, when the backend has
\* answered and the cleaned response text is not well-formed JSON, the
\* operation throws; it returns nothing, in particular no empty or default
\* value.
C22_ParseFailureThrows ==
  (oper.name \in Structured /\ oper.status = "ok" /\ ~JSONparses(oper.cleaned))
    => oper.pc = "threw" /\ oper.err = "SyntaxError" /\ oper.result = "-"

C22_Witness ==
  /\ oper.name = "generateSolution" /\ getCurrentProvider(h) = "ollama"
  /\ oper.status = "ok" /\ oper.text = <<"F", "TAG", "NL", "X", "NL", "F">>
  /\ oper.cleaned = <<"X">> /\ oper.pc = "threw"

\* a well-formed JSON text wrapped in code fences, with or without the json
\* tag, with or without white space before the opening and after the
\* closing fence
Fenced(t) ==
  \E pre \in Pads, post \in Pads, o \in {<<"F", "NL">>, <<"F", "TAG", "NL">>} :
    t = pre \o o \o <<"J">> \o <<"NL", "F">> \o post

\* C23: cleanJsonResponse maps every fenced well-formed JSON text to exactly
\* the JSON text, and every text without fences to the trimmed text.
C23_CleanYieldsJson ==
  (oper.name \in Structured /\ oper.status = "ok")
    => /\ Fenced(oper.text) => oper.cleaned = <<"J">>
       /\ ~Includes(oper.text, "F") => oper.cleaned = trim(oper.text)

\* C24: testConnection never throws; it ends with a result value, and when
\* the request it made failed (transport error or error status, of the
\* availability probe or of the generation) the result is success=false
\* with an error message.
C24_TestConnectionTotal ==
  oper.name = "testConnection"
    => /\ oper.pc # "threw"
       /\ oper.pc = "done" => oper.result \in {"success=true", "success=false"}
       /\ (oper.pc = "done" /\ (oper.status \in {"status", "error"} \/ reqs = << >>))
            => oper.result = "success=false" /\ oper.err # "-"

C24_Witness ==
  /\ oper.name = "testConnection" /\ getCurrentProvider(h) = "ollama"
  /\ Len(reqs) = 2 /\ oper.status = "status"
  /\ oper.pc = "done" /\ oper.result = "success=false"

\* C25: when getCurrentProvider() is not "ollama", getOllamaModels contacts
\* no server and returns the empty list; under every provider it never
\* throws, and a failed probe yields the empty list.
C25_ModelsOnlyForOllama ==
  oper.name = "getOllamaModels"
    => /\ oper.pc # "threw"
       /\ oper.status \in {"status", "error"} => oper.result = "[]"
       /\ getCurrentProvider(h) # "ollama"
            => reqs = << >> /\ oper.result = "[]"

\* C26: with Ollama the active provider, analyzeImageFile sends the image to
\* no backend and ends by throwing.
C26_ImageUnsupportedOnOllama ==
  (oper.name = "analyzeImageFile" /\ getCurrentProvider(h) = "ollama")
    => reqs = << >> /\ oper.pc # "done"

PublicOps ==
  Structured \cup {"analyzeImageFile", "chat", "testConnection", "getOllamaModels"}

\* C27: every generation request a public operation issues goes to the
\* backend of the provider getCurrentProvider() reports.
C27_RequestsGoToSelected ==
  oper.name \in PublicOps
    => \A i \in 1..Len(reqs) :
         reqs[i].kind = "generate" => reqs[i].backend = getCurrentProvider(h)

\* C28: when the local server or the chat-completion API answers with a
\* non-2xx status, callOllama and callOpenAI throw an error that names the
\* status and return no text; callOpenAI has not decoded the body and has
\* not called onChunk.
C28_StatusIsHardFailure ==
  (oper.name \in {"callOllama", "callOpenAI"} /\ oper.status = "status")
    => /\ oper.pc = "threw" /\ oper.err = "status"
       /\ oper.result = "-" /\ oper.text = << >>
       /\ ~oper.decoded /\ ~oper.chunks

C28_Witness ==
  /\ oper.name = "callOpenAI" /\ oper.cb /\ oper.status = "status"
  /\ oper.pc = "threw" /\ ~oper.chunks

\* C29: no invocation issues a backend request of a kind it has already
\* issued, nor any backend request after one of its requests has failed; for
\* the model auto-detection: after the model probe and the failed test
\* generation no second model probe is on the wire.
C29_NoRetry ==
  \A p \in ProbeIds : probe[p].pc # "tags2"

\* C30: in every state reached by construction and switch calls, an active
\* OpenAI provider has a non-empty stored API key.
C30_OpenAIHasKey ==
  (inst = "ok" /\ isUsingOpenAI(h)) => h.openaiApiKey # NoArg

\* C32: in every state reached by a successful construction and switch
\* calls, an active Gemini provider (neither flag set) has a Gemini model
\* handle.
C32_GeminiHasHandle ==
  (inst = "ok" /\ getCurrentProvider(h) = "gemini") => h.model # NoHandle

C32_Witness ==
  /\ inst = "ok" /\ ctorArgs.useOllama /\ ctorArgs.apiKey = NoArg
  /\ lastOp.op = "switchToGemini" /\ lastOp.state = "returned"
  /\ getCurrentProvider(h) = "gemini" /\ h.model # NoHandle

\* C33: switchToGemini without a key on an instance without a Gemini handle
\* throws and changes no field; without a key on an instance with a handle
\* it returns, the handle is the one the instance had, and only the two
\* provider flags are changed.
C33_SwitchToGeminiAtomic ==
  [][ (lastOp'.op = "switchToGemini" /\ nSwitch' = nSwitch + 1 /\ h'.model = h.model)
        => IF h.model = NoHandle
           THEN lastOp'.state = "threw" /\ h' = h
           ELSE /\ lastOp'.state = "returned"
                /\ h' = [h EXCEPT !.useOllama = FALSE, !.useOpenAI = FALSE] ]_vars

C33_Witness ==
  /\ lastOp.op = "switchToGemini" /\ lastOp.state = "threw"
  /\ lastOp.prevProvider = "ollama" /\ getCurrentProvider(h) = "ollama"
  /\ h.model = NoHandle

\* C34: from the return of switchToOllama with an explicit model until the
\* next call, getCurrentModel() is that model, also while and after the
\* model probe started by the constructor completes.  (Stated for the
\* states in which Ollama is the reported provider.)
C34_ExplicitModelSticks ==
  (lastOp.op = "switchToOllama" /\ lastOp.state = "returned"
     /\ lastOp.modelArg # NoArg /\ getCurrentProvider(h) = "ollama")
    => getCurrentModel(h) = lastOp.modelArg

\* C36: when the probe of an Ollama-mode construction has completed and the
\* model list it got contains the configured model, getCurrentModel() is
\* still the configured model, whether the test generation succeeded or
\* failed.
C36_ConfiguredModelKept ==
  (OllamaCtor /\ nSwitch = 0 /\ probe["ctor"].pc = "done" /\ probe["ctor"].tags1 = "ok"
     /\ Includes(serverModels, ConfiguredModel))
    => getCurrentModel(h) = ConfiguredModel

\* C37: an exception thrown by the stream callback does not abort decoding:
\* it is caught inside the decoder, the fragment is still part of the text,
\* later fragments are still decoded and handed to the callback, and the
\* call returns normally.
C37_CallbackThrowIsSwallowed ==
  (hasOnChunk /\ onChunkThrows)
    => /\ spc # "threw"
       /\ fullContent = Expected(seenLines)
       /\ delivered = fullContent

C37_Witness ==
  /\ hasOnChunk /\ onChunkThrows /\ spc = "returned"
  /\ fullContent = <<"a", "b">> /\ delivered = <<"a", "b">>

\* C40: cleanJsonResponse is idempotent: cleaning a text that has already
\* been cleaned returns it unchanged.
C40_CleanIdempotent ==
  (oper.name \in Structured /\ oper.status = "ok")
    => cleanJsonResponse(oper.cleaned) = oper.cleaned

\* C31: nothing serializes operations: there is an execution of
\* analyzeAudioFromBase64 whose transcription request uses one OpenAI key and
\* whose generation request uses a different key or model, installed by a
\* switchToOpenAI call that ran in between.  Every generation request carries
\* the key and the model stored in the fields at the moment it is issued.
C31_GenerationUsesCurrentKey ==
  [][ (aud.pc # "generating" /\ aud'.pc = "generating" /\ aud'.branch = "openai")
        => /\ aud'.genKey = h.openaiApiKey
           /\ aud'.genModel = h.openaiModel ]_vars

C31_Witness ==
  /\ aud.variant = "base64" /\ aud.branch = "openai" /\ aud.pc = "generating"
  /\ nSwitch = 1 /\ nCalls = 1
  /\ aud.trKey = "k1" /\ aud.genKey # aud.trKey

\* C38: chat, generateSolution, extractProblemFromImages,
\* debugSolutionWithImages, analyzeImageFile, analyzeAudioFile,
\* analyzeAudioFromBase64, getOllamaModels and testConnection leave the
\* provider flags, the Ollama model and URL, the OpenAI key and model and the
\* Gemini handle unchanged: only a step of a switch call changes a field.
C38_OperationsKeepConfiguration ==
  [][ nSwitch' = nSwitch => h' = h ]_vars

C38_Witness ==
  /\ oper.name = "testConnection" /\ oper.pc = "done"
  /\ oper.result = "success=true" /\ nOps = 2
  /\ h.useOllama /\ ~h.useOpenAI

\* C39: the two copies of the class behave alike.  From every state the
\* current class reaches, each constructor call, switch call and step of the
\* model probe of the earlier copy leads to the same fields (and throws in
\* the same cases) as that of the current class, and each read of the stream
\* leaves the same accumulated text; the current class differs only in
\* calling onChunk.
C39_SameAsEarlierCopy ==
  /\ (inst = "none" /\ spc = "idle")
       => \A apiKey \in ApiKeys, useOllama \in BOOLEAN, ollamaModel \in ModelArgs,
             ollamaUrl \in UrlArgs, useOpenAI \in BOOLEAN, openaiModel \in OpenAIModels :
            constructorPrev(apiKey, useOllama, ollamaModel, ollamaUrl, useOpenAI, openaiModel)
              = constructor(apiKey, useOllama, ollamaModel, ollamaUrl, useOpenAI, openaiModel)
  /\ inst = "ok"
       => /\ \A mdl \in ModelArgs, url \in UrlArgs :
               switchToOllamaPrev(h, mdl, url) = switchToOllama(h, mdl, url)
          /\ \A apiKey \in ApiKeys :
               /\ switchToGeminiThrowsPrev(h, apiKey) = switchToGeminiThrows(h, apiKey)
               /\ switchToGeminiPrev(h, apiKey) = switchToGemini(h, apiKey)
          /\ \A apiKey \in ApiKeys, mdl \in OpenAIModels :
               switchToOpenAIPrev(h, apiKey, mdl) = switchToOpenAI(h, apiKey, mdl)
          /\ getOllamaModelsSendsPrev(h) = getOllamaModelsSends(h)
          /\ \A outcome \in Outcomes :
               LET prev == getOllamaModelsResultPrev(outcome, serverModels)
                   cur  == getOllamaModelsResult(outcome, serverModels)
               IN  /\ prev = cur
                   /\ autoSelectPrev(h, prev) = autoSelect(h, cur)
                   /\ fallbackSelectPrev(h, prev) = fallbackSelect(h, cur)
  /\ spc = "reading"
       => \A n \in 1..(Len(Tokens(body)) - pos) :
            LET chunk == SubSeq(Tokens(body), pos + 1, pos + n)
            IN  processChunkPrev(fullContent, chunk) = processChunk(Acc, chunk).full

C39_Witness ==
  /\ hasOnChunk /\ spc = "reading" /\ nReads = 1
  /\ fullContent = <<"a">> /\ delivered = <<"a">>
  /\ pos < Len(Tokens(body))
  /\ processChunkPrev(fullContent, SubSeq(Tokens(body), pos + 1, Len(Tokens(body))))
       = <<"a", "b">>

\* C35: two concurrent analyzeAudioFromBase64 calls each transcribe their own
\* bytes: what a call uploads is what it wrote, and between its write and
\* its upload its temp file holds its own bytes, also when both calls fall
\* into the same millisecond.
C35_OwnTempFile ==
  \A c \in Callers :
    /\ tmp.call[c].sent \in {0, c}
    /\ tmp.call[c].pc = "open" => tmp.disk[tmp.call[c].path] = c

====
